---- MODULE Spec2Model ----
(***************************************************************************)
(* tab-limiter: the background navigation observer and visit-limit engine  *)
(* (src/src/background.ts) together with the popup's registry writers      *)
(* (src/src/popup.ts), over the shared chrome.storage.sync registry.       *)
(*                                                                         *)
(* Strings are sequences of one-character strings ("x.c" is                *)
(* <<"x", ".", "c">>), so that prefix, suffix and substring are computed   *)
(* as the JavaScript string methods compute them.                          *)
(*                                                                         *)
(* Granularity.  JavaScript runs each handler without interruption between *)
(* two awaits, so one action is one such run: from the resumption of an    *)
(* await to the next await (or to the end).  A registry read is delivered  *)
(* with the registry's content at the moment of the resumption, and a      *)
(* registry write lands at the moment its await resumes.                   *)
(***************************************************************************)
EXTENDS Integers, Sequences, FiniteSets, TLC

\* ------------------------------------------------------------------ bounds
\* Navigation events delivered in one session.
MaxEvents == 2
\* Largest tab id the browser hands out (0 stands for an absent or falsy id).
MaxTabs == 3
\* Records the popup creates in one session (ids are never reused).
MaxSites == 2
\* Largest visit limit typed into the popup form.
MaxLimit == 1
\* Popup operations suspended on the registry at the same time.
MaxPopupOps == 1
\* Navigations of the sequential scenario.
MaxNavs == 4
\* Longest hostname or pattern of the matcher's input space.
MaxStrLen == 3
\* Largest number of whole hours of a remaining time that is formatted.
MaxHours == 49
\* Pieces a site URL typed into the form is put together from.
MaxParts == 3
\* Half hours elapsed, at most, when a record's window was last reset.
MaxResets == 15

\* --------------------------------------------------------- string methods
\* String.prototype.startsWith
StartsWith(s, prefix) ==
    /\ Len(s) >= Len(prefix)
    /\ SubSeq(s, 1, Len(prefix)) = prefix

\* String.prototype.endsWith
EndsWith(s, suffix) ==
    /\ Len(s) >= Len(suffix)
    /\ SubSeq(s, Len(s) - Len(suffix) + 1, Len(s)) = suffix

\* String.prototype.substring(k): the string without its first k characters
Substring(s, k) == SubSeq(s, k + 1, Len(s))

\* One character of String.prototype.toLowerCase
LowerChar(c) ==
    CASE c = "W" -> "w"
      [] c = "X" -> "x"
      [] c = "A" -> "a"
      [] c = "C" -> "c"
      [] c = "H" -> "h"
      [] c = "T" -> "t"
      [] c = "P" -> "p"
      [] c = "S" -> "s"
      [] OTHER -> c

\* String.prototype.toLowerCase
ToLowerCase(s) == [i \in 1..Len(s) |-> LowerChar(s[i])]

\* The literal 'www.' of the regular expression /^www\./
WwwDot == <<"w", "w", "w", ".">>

\* s.replace(/^www\./, '')
StripWww(s) == IF StartsWith(s, WwwDot) THEN Substring(s, 4) ELSE s

\* ------------------------------------------------------- window durations
HourMs == 3600000
DayMs == 86400000
WeekMs == 604800000
MinutesMs == 1800000

\* The labels the popup's <select> offers (the SiteLimit.timeInterval type).
TimeIntervals == {"hour", "day", "week", "minutes"}

getResetTimeMinutesAsHour(siteLimit) ==
    CASE siteLimit.timeInterval = "hour" -> siteLimit.lastReset + HourMs
      [] siteLimit.timeInterval = "day" -> siteLimit.lastReset + DayMs
      [] siteLimit.timeInterval = "week" -> siteLimit.lastReset + WeekMs
      [] siteLimit.timeInterval = "minutes" -> siteLimit.lastReset + HourMs
      [] OTHER -> siteLimit.lastReset + DayMs

\* getResetTime: lastReset plus the label's duration, 'day' by default.
getResetTime(siteLimit) ==
    CASE siteLimit.timeInterval = "hour" -> siteLimit.lastReset + HourMs
      [] siteLimit.timeInterval = "day" -> siteLimit.lastReset + DayMs
      [] siteLimit.timeInterval = "week" -> siteLimit.lastReset + WeekMs
      [] siteLimit.timeInterval = "minutes" -> siteLimit.lastReset + MinutesMs
      [] OTHER -> siteLimit.lastReset + DayMs

\* The popup's getTimeUntilReset: resetInterval, 0 unless the label is one
\* of the four.
resetInterval(limit) ==
    CASE limit.timeInterval = "hour" -> 60 * 60 * 1000
      [] limit.timeInterval = "day" -> 24 * 60 * 60 * 1000
      [] limit.timeInterval = "week" -> 7 * 24 * 60 * 60 * 1000
      [] limit.timeInterval = "minutes" -> 30 * 60 * 1000
      [] OTHER -> 0

\* The popup's getTimeUntilReset: nextReset = lastReset + resetInterval
nextReset(limit) == limit.lastReset + resetInterval(limit)

\* ------------------------------------------------- remaining-time text
\* The 60 * 1000 of formatTimeUntilReset: one minute.
MinuteMs == 60000

\* `${n} ${word}${n !== 1 ? 's' : ''}`
Plural(n, word) == ToString(n) \o " " \o word \o (IF n # 1 THEN "s" ELSE "")

formatTimeUntilResetDaysOverOneDay(milliseconds) ==
    LET hours == milliseconds \div HourMs
        minutes == (milliseconds % HourMs) \div MinuteMs
    IN  IF milliseconds > DayMs
        THEN Plural(hours \div 24, "day")
        ELSE IF hours > 0
        THEN Plural(hours, "hour") \o " and " \o Plural(minutes, "minute")
        ELSE Plural(minutes, "minute")

\* formatTimeUntilReset: whole hours and the whole minutes left over; days
\* when the whole hours exceed 24, hours and minutes when there is at least
\* one whole hour, minutes otherwise.
formatTimeUntilReset(milliseconds) ==
    LET hours == milliseconds \div HourMs
        minutes == (milliseconds % HourMs) \div MinuteMs
    IN  IF hours > 24
        THEN Plural(hours \div 24, "day")
        ELSE IF hours > 0
        THEN Plural(hours, "hour") \o " and " \o Plural(minutes, "minute")
        ELSE Plural(minutes, "minute")

\* ---------------------------------------------------------------- matcher
isHostnameMatchNoDot(hostname, pattern) ==
    IF StartsWith(pattern, <<"*", ".">>)
    THEN LET domain == Substring(pattern, 2)
         IN  hostname = domain \/ EndsWith(hostname, domain)
    ELSE hostname = pattern \/ EndsWith(hostname, pattern)

\* isHostnameMatch: a wildcard pattern '*.d' and a bare pattern 'd' both
\* match d and every name ending in '.d'.
isHostnameMatch(hostname, pattern) ==
    IF StartsWith(pattern, <<"*", ".">>)
    THEN LET domain == Substring(pattern, 2)
         IN  hostname = domain \/ EndsWith(hostname, <<".">> \o domain)
    ELSE hostname = pattern \/ EndsWith(hostname, <<".">> \o pattern)

\* The value findMatchingSite returns when its loop ends without a match.
NoSite == [id |-> 0]

\* Object.values(siteLimits): the records in the mapping's insertion order.
ObjectValues(siteLimits) == [i \in 1..Len(siteLimits) |-> siteLimits[i].val]

RECURSIVE FindFrom(_, _, _)
\* The for-of loop of findMatchingSite from position i on.
FindFrom(hostname, values, i) ==
    IF i > Len(values) THEN NoSite
    ELSE IF isHostnameMatch(hostname, values[i].url) THEN values[i]
    ELSE FindFrom(hostname, values, i + 1)

RECURSIVE FindLastFrom(_, _, _)
FindLastFrom(hostname, values, i) ==
    IF i < 1 THEN NoSite
    ELSE IF isHostnameMatch(hostname, values[i].url) THEN values[i]
    ELSE FindLastFrom(hostname, values, i - 1)

findMatchingSiteLast(hostname, siteLimits) ==
    FindLastFrom(hostname, ObjectValues(siteLimits), Len(siteLimits))

\* findMatchingSite: the first record whose url matches, or null.
findMatchingSite(hostname, siteLimits) ==
    FindFrom(hostname, ObjectValues(siteLimits), 1)

\* ------------------------------------------------------------ tab's URL
\* A tab's url is [scheme, host]: scheme "none" is an absent or empty url,
\* "invalid" a string new URL() rejects, "about" a URL with an empty
\* hostname (about:blank).
NoHostname == <<>>

\* extractHostname: null (here NoHostname, as falsy as '') when the URL
\* does not parse; else its hostname, which the URL parser lowercases,
\* without a leading 'www.', lowercased.
extractHostname(url) ==
    IF url.scheme = "invalid" THEN NoHostname
    ELSE ToLowerCase(StripWww(ToLowerCase(url.host)))

\* ------------------------------------------------------ registry mapping
\* The siteLimits object: a sequence of [key, val] in insertion order.
HasKey(siteLimits, k) == \E i \in 1..Len(siteLimits) : siteLimits[i].key = k

\* siteLimits[k] (for a key that is present)
Get(siteLimits, k) ==
    siteLimits[CHOOSE i \in 1..Len(siteLimits) : siteLimits[i].key = k].val

PutAtNextIndex(siteLimits, k, v) ==
    Append(siteLimits, [key |-> Len(siteLimits) + 1, val |-> v])

PutAlone(siteLimits, k, v) == << [key |-> k, val |-> v] >>

\* siteLimits[k] = v: an existing key keeps its place, a new key goes last.
Put(siteLimits, k, v) ==
    IF HasKey(siteLimits, k)
    THEN [i \in 1..Len(siteLimits) |->
            IF siteLimits[i].key = k THEN [key |-> k, val |-> v] ELSE siteLimits[i]]
    ELSE Append(siteLimits, [key |-> k, val |-> v])

\* delete siteLimits[k]
Delete(siteLimits, k) == SelectSeq(siteLimits, LAMBDA e : e.key # k)

Keys(siteLimits) == {siteLimits[i].key : i \in 1..Len(siteLimits)}

\* ------------------------------------------------------- popup's inputs
\* String.prototype.trim, for the space character
RECURSIVE Trim(_)
Trim(s) ==
    IF s = <<>> THEN s
    ELSE IF Head(s) = " " THEN Trim(Tail(s))
    ELSE IF s[Len(s)] = " " THEN Trim(SubSeq(s, 1, Len(s) - 1))
    ELSE s

\* s.replace(/^https?:\/\//, '')
StripProtocol(s) ==
    IF StartsWith(s, <<"h", "t", "t", "p", "s", ":", "/", "/">>) THEN Substring(s, 8)
    ELSE IF StartsWith(s, <<"h", "t", "t", "p", ":", "/", "/">>) THEN Substring(s, 7)
    ELSE s

\* s.replace(/\/$/, '')
StripTrailingSlash(s) ==
    IF s # <<>> /\ s[Len(s)] = "/" THEN SubSeq(s, 1, Len(s) - 1) ELSE s

\* normalizeUrl: protocol, then 'www.', then trailing slash, then lowercase.
normalizeUrl(url) == ToLowerCase(StripTrailingSlash(StripWww(StripProtocol(url))))

\* parseInt of the limit field: an integer, or NaN.
NaN == [isNaN |-> TRUE, value |-> 0]

Num(n) == [isNaN |-> FALSE, value |-> n]

FormRejectedUnlessPositive(url, visitLimit) ==
    \/ url = <<>>
    \/ visitLimit.isNaN
    \/ visitLimit.value < 0

\* The guard of addSiteLimit: !url || !visitLimit || visitLimit < 1
FormRejected(url, visitLimit) ==
    \/ url = <<>>
    \/ visitLimit.isNaN
    \/ visitLimit.value = 0
    \/ visitLimit.value < 1

\* --------------------------------------------------------------- inputs
\* Hosts of the https URLs navigated to.
Hosts ==
    { <<"x", ".", "c">>,
      <<"W", "W", "W", ".", "x", ".", "c">>,
      <<"a", ".", "x", ".", "c">>,
      <<"y", ".", "c">> }

\* tab.url of an event.
Urls ==
    { [scheme |-> s, host |-> <<>>] : s \in {"none", "chrome", "chrome-extension", "invalid", "about"} }
    \cup { [scheme |-> "https", host |-> h] : h \in Hosts }

\* What an event is: tabs.onCreated, or tabs.onUpdated with changeInfo.url,
\* with changeInfo.status = 'complete', or with neither.
EventKinds == {"created", "updated-url", "updated-complete", "updated-other"}

\* Site URLs typed into the popup form.
FormUrls ==
    { <<>>,
      <<" ">>,
      <<"x", ".", "c">>,
      <<" ", "a", ".", "x", ".", "c", "/">> }

\* Values of parseInt(limitInput.value).
FormLimits == {NaN} \cup {Num(n) : n \in -1..MaxLimit}

\* Interval labels selected in the form.
FormIntervals == {"minutes"}

\* Instants at which Date.now() is read: the start, and the instants at and
\* just after the window boundary of a 'minutes' record created at the start.
Instants == {0, MinutesMs, MinutesMs + 1}

\* Instants of the sequential scenario: the start, one millisecond later,
\* and the instants at and just after the window boundary of an 'hour'
\* record created at the start.
SeqInstants == {0, 1, HourMs, HourMs + 1}

\* Interval labels of the sequential scenario's record.
SeqIntervals == {"hour", "day"}

\* The URL navigated to in the sequential scenario: the limited site.
SeqUrls ==
    { [scheme |-> "https", host |-> <<"W", "W", "W", ".", "x", ".", "c">>] }

\* The URL blockSite redirects to: chrome.runtime.getURL of the blocked
\* page, whose host is the extension's id.
BlockedPageUrl == [scheme |-> "chrome-extension", host |-> <<"e">>]

\* Characters of the matcher's input space.
Chars == {"a", "x", ".", "*"}

\* Hostnames and patterns of the matcher's input space.
Strs == UNION { [1..n -> Chars] : n \in 0..MaxStrLen }

\* Pieces of the site URLs typed into the form: schemes, 'www.' prefixes,
\* host letters, a slash and a space, in both letter cases.
UrlParts ==
    { <<"h", "t", "t", "p", ":", "/", "/">>,
      <<"h", "t", "t", "p", "s", ":", "/", "/">>,
      <<"H", "T", "T", "P", ":", "/", "/">>,
      <<"w", "w", "w", ".">>,
      <<"W", "W", "W", ".">>,
      <<"x">>,
      <<"X">>,
      <<"/">>,
      <<" ">> }

\* The pieces put together.
RECURSIVE Join(_)
Join(parts) == IF parts = <<>> THEN <<>> ELSE Head(parts) \o Join(Tail(parts))

\* Site URLs typed into the form, of up to MaxParts pieces.
TypedUrls == { Join(parts) : parts \in UNION { [1..n -> UrlParts] : n \in 1..MaxParts } }

\* Records whose reset instant is computed: each label, last reset at a
\* whole number of half hours.
ResetSites ==
    { [timeInterval |-> t, lastReset |-> k * MinutesMs] :
         t \in TimeIntervals, k \in 0..MaxResets }

\* Remaining times handed to formatTimeUntilReset: whole hours, whole
\* minutes and a rest of milliseconds, more than zero in all.
Remainings ==
    { h * HourMs + m * MinuteMs + ms :
         h \in 0..MaxHours, m \in {0, 1, 2, 30, 45, 59}, ms \in {0, 1, 59999} } \ {0}

\* ---------------------------------------------------------------- state
VARIABLES
    storage,    \* chrome.storage.sync's siteLimits mapping
    tabIds,     \* TabLimiterBackground.tabIds
    now,        \* Date.now()
    handlers,   \* the onNavigation activations, in order of delivery
    popupOps,   \* the popup's operations suspended on the registry
    nextId,     \* the number of ids generateId has produced, plus one
    status,     \* the type of the popup's last showStatus ("none" before any)
    mHostname,  \* matcher input space: the hostname
    mPattern,   \* matcher input space: the pattern
    mResult,    \* matcher input space: what isHostnameMatch returned
    fMs,        \* formatter input space: the remaining time
    fText,      \* formatter input space: what formatTimeUntilReset returned
    nInput,     \* normalizer input space: the site URL typed into the form
    nResult,    \* normalizer input space: the pattern stored for it
    rSite,      \* reset-instant input space: the record
    rResult     \* reset-instant input space: the engine's and the popup's instant

vars == <<storage, tabIds, now, handlers, popupOps, nextId, status, mHostname, mPattern, mResult,
          fMs, fText, nInput, nResult, rSite, rResult>>

engineVars == <<storage, tabIds, now, handlers, popupOps, nextId, status>>

matcherVars == <<mHostname, mPattern, mResult>>

formatVars == <<fMs, fText>>

normalizeVars == <<nInput, nResult>>

resetVars == <<rSite, rResult>>

\* No reset instant computed yet.
NoInstants == [applied |-> FALSE, engine |-> 0, popup |-> 0]

\* No pattern computed yet.
NoPattern == [applied |-> FALSE, url |-> <<>>, again |-> <<>>]

\* The input spaces of the pure functions, which the engine and the popup
\* leave alone.
pureVars == <<matcherVars, formatVars, normalizeVars, resetVars>>

\* No block instruction.
NoBlock == [tabId |-> 0]

\* An activation of onNavigation.  site is the handler's siteLimit object,
\* old the record as findMatchingSite returned it, rolled whether the
\* reset branch ran, data the mapping handed to storage.sync.set, block the
\* chrome.tabs.update call made; over records whether, when the event was
\* delivered, the registry's first matching record was over its limit with
\* its window still open.
Handler(tab, hostname, pc, outcome, over) ==
    [tab |-> tab, hostname |-> hostname, pc |-> pc, outcome |-> outcome,
     site |-> NoSite, old |-> NoSite, rolled |-> FALSE, data |-> <<>>,
     block |-> NoBlock, over |-> over]

InFlight(h) == h.pc # "done"

\* ------------------------------------------------------------ engine
WatchedNever(tab) == FALSE

\* this.tabIds.has(tab.id)
Watched(tab) == tab \in tabIds

ShouldResetStrict(t, resetTime) == t > resetTime

\* now >= resetTime
ShouldReset(t, resetTime) == t >= resetTime

LimitExceededAtLimit(siteLimit) == siteLimit.visitCount >= siteLimit.visitLimit

\* siteLimit.visitCount > siteLimit.visitLimit
LimitExceeded(siteLimit) == siteLimit.visitCount > siteLimit.visitLimit

blockSiteCountBefore(tab, siteLimit) ==
    [tabId |-> tab,
     siteUrl |-> siteLimit.url,
     visitCount |-> siteLimit.visitCount - 1,
     visitLimit |-> siteLimit.visitLimit,
     timeInterval |-> siteLimit.timeInterval,
     remaining |-> getResetTime(siteLimit) - now]

\* blockSite: the chrome.tabs.update call, with the time left computed from
\* a second reading of the clock.
blockSite(tab, siteLimit) ==
    [tabId |-> tab,
     siteUrl |-> siteLimit.url,
     visitCount |-> siteLimit.visitCount,
     visitLimit |-> siteLimit.visitLimit,
     timeInterval |-> siteLimit.timeInterval,
     remaining |-> getResetTime(siteLimit) - now]

QualifiesAnyScheme(tab, url) ==
    /\ url.scheme # "none"
    /\ tab # 0
    /\ extractHostname(url) # NoHostname

QualifiesAnyTab(tab, url) ==
    /\ url.scheme \notin {"none", "chrome", "chrome-extension"}
    /\ extractHostname(url) # NoHostname

\* Whether the event's URL passes the synchronous checks of onNavigation.
Qualifies(tab, url) ==
    /\ url.scheme # "none"
    /\ tab # 0
    /\ url.scheme \notin {"chrome", "chrome-extension"}
    /\ extractHostname(url) # NoHostname

\* Whether the registry's first record matching the hostname is over its
\* limit in a window that is still open.
OverLimitNow(hostname) ==
    LET s == findMatchingSite(hostname, storage)
    IN  /\ s.id # 0
        /\ s.visitCount > s.visitLimit
        /\ now < getResetTime(s)

\* The listener and the synchronous start of onNavigation: an event the
\* listener drops or onNavigation skips ends at once, any other suspends on
\* getStorageData.
onNavigation(tab, url, kind) ==
    IF kind # "updated-other" /\ Qualifies(tab, url)
    THEN Handler(tab, extractHostname(url), "read1", "pending",
                 OverLimitNow(extractHostname(url)))
    ELSE Handler(tab, NoHostname, "done", "skipped", FALSE)

\* The tab ids in use: the browser numbers its tabs upwards, so an event
\* comes from a tab seen before or from the next new tab (or carries no id).
TabsInUse == {handlers[i].tab : i \in 1..Len(handlers)}

EventTabs(max) == {t \in 0..max : t = 0 \/ t \in TabsInUse \/ (t - 1) \in TabsInUse \cup {0}}

\* A tab event arrives.
NavEvent ==
    /\ Len(handlers) < MaxEvents
    /\ \E h \in {onNavigation(tab, url, kind) :
                    tab \in EventTabs(MaxTabs), url \in Urls, kind \in EventKinds} :
          handlers' = Append(handlers, h)
    /\ UNCHANGED <<storage, tabIds, now, popupOps, nextId, status, pureVars>>

EvaluateResetAlways(matchedSite) ==
    [matchedSite EXCEPT !.visitCount = 1, !.lastReset = now]

\* The siteLimit object after the rollover check and the increment.
Evaluate(matchedSite) ==
    LET reset == ShouldReset(now, getResetTime(matchedSite))
        afterReset == IF reset
                      THEN [matchedSite EXCEPT !.visitCount = 0, !.lastReset = now]
                      ELSE matchedSite
    IN  [afterReset EXCEPT !.visitCount = @ + 1]

\* onNavigation resumes from its getStorageData: findMatchingSite, then
\* handleSiteVisit up to its own getStorageData.
ReadAndEvaluate(i) ==
    LET h == handlers[i]
        matchedSite == findMatchingSite(h.hostname, storage)
    IN  /\ h.pc = "read1"
        /\ IF matchedSite.id = 0
           THEN /\ handlers' = [handlers EXCEPT ![i].pc = "done", ![i].outcome = "nomatch"]
                /\ UNCHANGED tabIds
           ELSE IF Watched(h.tab)
           THEN /\ handlers' = [handlers EXCEPT ![i].pc = "done", ![i].outcome = "watched"]
                /\ UNCHANGED tabIds
           ELSE /\ tabIds' = tabIds \cup {h.tab}
                /\ handlers' = [handlers EXCEPT
                      ![i].pc = "read2",
                      ![i].old = matchedSite,
                      ![i].rolled = ShouldReset(now, getResetTime(matchedSite)),
                      ![i].site = Evaluate(matchedSite)]
        /\ UNCHANGED <<storage, now, popupOps, nextId>>

ReadAndPutFresh(i) ==
    LET h == handlers[i]
        fresh == IF HasKey(storage, h.site.id)
                 THEN [Get(storage, h.site.id) EXCEPT !.visitCount = @ + 1]
                 ELSE h.site
    IN  /\ h.pc = "read2"
        /\ handlers' = [handlers EXCEPT
              ![i].pc = "write",
              ![i].data = Put(storage, h.site.id, fresh)]
        /\ UNCHANGED <<storage, tabIds, now, popupOps, nextId>>

\* handleSiteVisit resumes from its getStorageData: the record is stored in
\* the mapping just read, and storage.sync.set is called.
ReadAndPut(i) ==
    LET h == handlers[i]
    IN  /\ h.pc = "read2"
        /\ handlers' = [handlers EXCEPT
              ![i].pc = "write",
              ![i].data = Put(storage, h.site.id, h.site)]
        /\ UNCHANGED <<storage, tabIds, now, popupOps, nextId>>

\* storage.sync.set succeeds: the mapping lands, and handleSiteVisit blocks
\* the tab when the limit is exceeded.
WriteAndBlock(i) ==
    LET h == handlers[i]
    IN  /\ h.pc = "write"
        /\ storage' = h.data
        /\ handlers' = [handlers EXCEPT
              ![i].pc = "done",
              ![i].outcome = "evaluated",
              ![i].old = NoSite,
              ![i].data = <<>>,
              ![i].block = IF LimitExceeded(h.site) THEN blockSite(h.tab, h.site)
                           ELSE NoBlock]
        /\ UNCHANGED <<tabIds, now, popupOps, nextId>>

WriteFailForgetsTab(i) ==
    LET h == handlers[i]
    IN  /\ h.pc = "write"
        /\ handlers' = [handlers EXCEPT
              ![i].pc = "done", ![i].outcome = "failed",
              ![i].old = NoSite, ![i].data = <<>>]
        /\ tabIds' = tabIds \ {h.tab}
        /\ UNCHANGED <<storage, now, popupOps, nextId>>

\* storage.sync.set rejects: the catch of onNavigation logs the error.
WriteFail(i) ==
    LET h == handlers[i]
    IN  /\ h.pc = "write"
        /\ handlers' = [handlers EXCEPT
              ![i].pc = "done", ![i].outcome = "failed",
              ![i].old = NoSite, ![i].data = <<>>]
        /\ UNCHANGED <<storage, tabIds, now, popupOps, nextId>>

\* storage.sync.get fails: the host reports it through runtime.lastError
\* and calls the callback without a result, so reading result.siteLimits
\* throws inside the callback and resolve is never called; the promise of
\* getStorageData has no reject path, and the handler is never resumed.
ReadLost(i) ==
    LET h == handlers[i]
    IN  /\ h.pc \in {"read1", "read2"}
        /\ handlers' = [handlers EXCEPT
              ![i].pc = "lost", ![i].outcome = "failed", ![i].old = NoSite]
        /\ UNCHANGED <<storage, tabIds, now, popupOps, nextId>>

\* The host completes the registry call the i-th handler is suspended on,
\* with a result or with a failure.
HandlerRun(i) ==
    /\ i \in 1..Len(handlers)
    /\ \/ ReadAndEvaluate(i)
       \/ ReadAndPut(i)
       \/ WriteAndBlock(i)
       \/ WriteFail(i)
       \/ ReadLost(i)
    /\ UNCHANGED <<status, pureVars>>

HandlerStep == \E i \in 1..Len(handlers) : HandlerRun(i)

\* ------------------------------------------------------------- popup
\* A popup operation suspended on the registry.
PopupOp(op, pc, siteLimit, siteId, data) ==
    [op |-> op, pc |-> pc, siteLimit |-> siteLimit, siteId |-> siteId, data |-> data]

\* addSiteLimit up to its getStorageData: the operations in flight and the
\* status shown after a submission (an invalid form is rejected with an
\* error status and nothing else happens).
addSiteLimit(input, visitLimit, timeInterval) ==
    LET url == Trim(input)
    IN  IF FormRejected(url, visitLimit)
        THEN [popupOps |-> popupOps, status |-> "error"]
        ELSE [popupOps |-> popupOps \cup
                 { PopupOp("add", "read",
                           [url |-> normalizeUrl(url),
                            visitLimit |-> visitLimit.value,
                            timeInterval |-> timeInterval], 0, <<>>) },
              status |-> status]

\* The form is submitted (as long as the popup has room for one more
\* operation and generateId has ids left for every submission in flight).
AddSubmit ==
    /\ Cardinality(popupOps) < MaxPopupOps
    /\ nextId + Cardinality({o \in popupOps : o.op = "add" /\ o.pc = "read"}) <= MaxSites
    /\ \E r \in {addSiteLimit(input, visitLimit, timeInterval) :
                     input \in FormUrls, visitLimit \in FormLimits,
                     timeInterval \in FormIntervals} :
          /\ popupOps' = r.popupOps
          /\ status' = r.status
    /\ UNCHANGED <<storage, tabIds, now, handlers, nextId, pureVars>>

\* addSiteLimit resumes from getStorageData: generateId, the new record is
\* stored in the mapping just read, and storage.sync.set is called.
AddRead ==
    /\ \E o \in popupOps :
          /\ o.op = "add" /\ o.pc = "read"
          /\ LET newSiteLimit ==
                    [id |-> nextId,
                     url |-> o.siteLimit.url,
                     visitLimit |-> o.siteLimit.visitLimit,
                     timeInterval |-> o.siteLimit.timeInterval,
                     visitCount |-> 0,
                     lastReset |-> now,
                     createdAt |-> now]
             IN  popupOps' = (popupOps \ {o}) \cup
                    { PopupOp("add", "write", newSiteLimit, nextId,
                              Put(storage, nextId, newSiteLimit)) }
    /\ nextId' = nextId + 1
    /\ UNCHANGED <<storage, tabIds, now, handlers, status, pureVars>>

\* deleteSite up to its getStorageData, for a Delete button of the list: the
\* list shows records loaded earlier, so the id is one generated before and
\* not one whose first write is still in flight.
DeleteClick ==
    /\ Cardinality(popupOps) < MaxPopupOps
    /\ \E siteId \in (1..(nextId - 1)) \ {o.siteId : o \in popupOps} :
          popupOps' = popupOps \cup { PopupOp("delete", "read", NoSite, siteId, <<>>) }
    /\ UNCHANGED <<storage, tabIds, now, handlers, nextId, status, pureVars>>

\* deleteSite resumes from getStorageData: the key is deleted from the
\* mapping just read, and storage.sync.set is called.
DeleteRead ==
    /\ \E o \in popupOps :
          /\ o.op = "delete" /\ o.pc = "read"
          /\ popupOps' = (popupOps \ {o}) \cup
                { PopupOp("delete", "write", NoSite, o.siteId, Delete(storage, o.siteId)) }
    /\ UNCHANGED <<storage, tabIds, now, handlers, nextId, status, pureVars>>

\* The storage.sync.set of addSiteLimit or deleteSite lands, and the
\* success status is shown.
PopupWrite ==
    /\ \E o \in popupOps :
          /\ o.pc = "write"
          /\ storage' = o.data
          /\ popupOps' = popupOps \ {o}
    /\ status' = "success"
    /\ UNCHANGED <<tabIds, now, handlers, nextId, pureVars>>

\* clearAllLimits, confirmed: the empty mapping is written (on an empty
\* registry the write changes nothing).
ClearAllLimits ==
    /\ storage # <<>>
    /\ storage' = <<>>
    /\ status' = "success"
    /\ UNCHANGED <<tabIds, now, handlers, popupOps, nextId, pureVars>>

\* ------------------------------------------------------------- clock
\* Time passes between two runs.
Tick ==
    /\ \E t \in Instants : t > now /\ now' = t
    /\ UNCHANGED <<storage, tabIds, handlers, popupOps, nextId, status, pureVars>>

\* ------------------------------------------------------ specification
Init ==
    /\ storage = <<>>
    /\ tabIds = {}
    /\ now = 0
    /\ handlers = <<>>
    /\ popupOps = {}
    /\ nextId = 1
    /\ status = "none"
    /\ mHostname = <<>>
    /\ mPattern = <<>>
    /\ mResult = "none"
    /\ fMs = 0
    /\ fText = "none"
    /\ nInput = <<>>
    /\ nResult = NoPattern
    /\ rSite = [timeInterval |-> "day", lastReset |-> 0]
    /\ rResult = NoInstants

Next ==
    \/ NavEvent
    \/ HandlerStep
    \/ AddSubmit
    \/ AddRead
    \/ DeleteClick
    \/ DeleteRead
    \/ PopupWrite
    \/ ClearAllLimits
    \/ Tick

Spec == Init /\ [][Next]_vars

\* ------------------------------------------------- sequential sessions
\* The registry right after the popup stored one record for 'x.c' at the
\* start, and a session in which every navigation is handled to its end
\* before the next event arrives.
SeqInit ==
    /\ \E visitLimit \in 1..(MaxNavs - 1), timeInterval \in SeqIntervals :
          storage = << [key |-> 1,
                        val |-> [id |-> 1, url |-> <<"x", ".", "c">>,
                                 visitLimit |-> visitLimit,
                                 timeInterval |-> timeInterval,
                                 visitCount |-> 0, lastReset |-> 0, createdAt |-> 0]] >>
    /\ tabIds = {}
    /\ now = 0
    /\ handlers = <<>>
    /\ popupOps = {}
    /\ nextId = 2
    /\ status = "none"
    /\ mHostname = <<>>
    /\ mPattern = <<>>
    /\ mResult = "none"
    /\ fMs = 0
    /\ fText = "none"
    /\ nInput = <<>>
    /\ nResult = NoPattern
    /\ rSite = [timeInterval |-> "day", lastReset |-> 0]
    /\ rResult = NoInstants

SeqNavEvent ==
    /\ Len(handlers) < MaxNavs
    /\ \A i \in 1..Len(handlers) : ~InFlight(handlers[i])
    /\ \E h \in {onNavigation(tab, url, kind) :
                    tab \in EventTabs(MaxNavs), url \in SeqUrls, kind \in EventKinds} :
          handlers' = Append(handlers, h)
    /\ UNCHANGED <<storage, tabIds, now, popupOps, nextId, status, pureVars>>

\* A redirected tab loads the blocked page: the browser delivers the tab's
\* update events with the blocked page's URL.
BlockedPageLoad ==
    /\ Len(handlers) < MaxNavs
    /\ \A i \in 1..Len(handlers) : ~InFlight(handlers[i])
    /\ \E i \in 1..Len(handlers), kind \in {"updated-url", "updated-complete"} :
          /\ handlers[i].block.tabId # 0
          /\ handlers' = Append(handlers,
                                onNavigation(handlers[i].block.tabId, BlockedPageUrl, kind))
    /\ UNCHANGED <<storage, tabIds, now, popupOps, nextId, status, pureVars>>

SeqTick ==
    /\ \E t \in SeqInstants : t > now /\ now' = t
    /\ UNCHANGED <<storage, tabIds, handlers, popupOps, nextId, status, pureVars>>

SeqNext ==
    \/ SeqNavEvent
    \/ BlockedPageLoad
    \/ HandlerStep
    \/ SeqTick

SpecSeq == SeqInit /\ [][SeqNext]_vars

\* ------------------------------------------------- concurrent sessions
\* Overlapping navigations over the one-record registry, the host
\* completing every registry call a handler is suspended on.
FairNext ==
    \/ NavEvent
    \/ HandlerStep
    \/ Tick

SpecFair ==
    /\ SeqInit
    /\ [][FairNext]_vars
    /\ \A i \in 1..MaxEvents : WF_vars(HandlerRun(i))

\* ------------------------------------------------ matcher input space
MatchInit ==
    /\ storage = <<>>
    /\ tabIds = {}
    /\ now = 0
    /\ handlers = <<>>
    /\ popupOps = {}
    /\ nextId = 1
    /\ status = "none"
    /\ mHostname \in Strs
    /\ mPattern \in Strs
    /\ mResult = "none"
    /\ fMs = 0
    /\ fText = "none"
    /\ nInput = <<>>
    /\ nResult = NoPattern
    /\ rSite = [timeInterval |-> "day", lastReset |-> 0]
    /\ rResult = NoInstants

\* isHostnameMatch is applied to the pair.
MatchApply ==
    /\ mResult = "none"
    /\ mResult' = IF isHostnameMatch(mHostname, mPattern) THEN "match" ELSE "no match"
    /\ UNCHANGED <<engineVars, mHostname, mPattern, formatVars, normalizeVars, resetVars>>

MatchNext == MatchApply

SpecMatch == MatchInit /\ [][MatchNext]_vars

\* ---------------------------------------------- formatter input space
FormatInit ==
    /\ storage = <<>>
    /\ tabIds = {}
    /\ now = 0
    /\ handlers = <<>>
    /\ popupOps = {}
    /\ nextId = 1
    /\ status = "none"
    /\ mHostname = <<>>
    /\ mPattern = <<>>
    /\ mResult = "none"
    /\ fMs \in Remainings
    /\ fText = "none"
    /\ nInput = <<>>
    /\ nResult = NoPattern
    /\ rSite = [timeInterval |-> "day", lastReset |-> 0]
    /\ rResult = NoInstants

\* formatTimeUntilReset is applied to the remaining time.
FormatApply ==
    /\ fText = "none"
    /\ fText' = formatTimeUntilReset(fMs)
    /\ UNCHANGED <<engineVars, matcherVars, fMs, normalizeVars, resetVars>>

FormatNext == FormatApply

SpecFormat == FormatInit /\ [][FormatNext]_vars

\* --------------------------------------------- normalizer input space
NormalizeInit ==
    /\ storage = <<>>
    /\ tabIds = {}
    /\ now = 0
    /\ handlers = <<>>
    /\ popupOps = {}
    /\ nextId = 1
    /\ status = "none"
    /\ mHostname = <<>>
    /\ mPattern = <<>>
    /\ mResult = "none"
    /\ fMs = 0
    /\ fText = "none"
    /\ nInput \in TypedUrls
    /\ nResult = NoPattern
    /\ rSite = [timeInterval |-> "day", lastReset |-> 0]
    /\ rResult = NoInstants

\* addSiteLimit computes the pattern it stores for an accepted URL: the
\* input is trimmed and, unless empty, normalized; normalizeUrl is then
\* applied to the pattern once more.
NormalizeApply ==
    /\ ~nResult.applied
    /\ Trim(nInput) # <<>>
    /\ nResult' = [applied |-> TRUE,
                   url |-> normalizeUrl(Trim(nInput)),
                   again |-> normalizeUrl(normalizeUrl(Trim(nInput)))]
    /\ UNCHANGED <<engineVars, matcherVars, formatVars, nInput, resetVars>>

NormalizeNext == NormalizeApply

SpecNormalize == NormalizeInit /\ [][NormalizeNext]_vars

\* ------------------------------------------- reset-instant input space
ResetInit ==
    /\ storage = <<>>
    /\ tabIds = {}
    /\ now = 0
    /\ handlers = <<>>
    /\ popupOps = {}
    /\ nextId = 1
    /\ status = "none"
    /\ mHostname = <<>>
    /\ mPattern = <<>>
    /\ mResult = "none"
    /\ fMs = 0
    /\ fText = "none"
    /\ nInput = <<>>
    /\ nResult = NoPattern
    /\ rSite \in ResetSites
    /\ rResult = NoInstants

\* The engine's getResetTime and the popup's getTimeUntilReset compute the
\* record's reset instant.
ResetApply ==
    /\ ~rResult.applied
    /\ rResult' = [applied |-> TRUE,
                   engine |-> getResetTime(rSite),
                   popup |-> nextReset(rSite)]
    /\ UNCHANGED <<engineVars, matcherVars, formatVars, normalizeVars, rSite>>

ResetNext == ResetApply

SpecReset == ResetInit /\ [][ResetNext]_vars

\* ================================================================ claims

\* C1: when an evaluation has ended with its write done, a block
\* instruction was issued if and only if the visitCount it wrote is
\* strictly greater than visitLimit.
C1_BlockIffOverLimit ==
    \A i \in 1..Len(handlers) :
        handlers[i].outcome = "evaluated" =>
            /\ (handlers[i].block.tabId # 0) <=>
                  (handlers[i].site.visitCount > handlers[i].site.visitLimit)
            /\ handlers[i].block.tabId # 0 =>
                  handlers[i].block.visitCount = handlers[i].site.visitCount

\* C1 witness: one evaluation wrote visitCount = visitLimit and did not
\* block, another wrote visitLimit + 1 and blocked.
C1_Witness ==
    \E i, j \in 1..Len(handlers) :
        /\ handlers[i].outcome = "evaluated"
        /\ handlers[i].site.visitCount = handlers[i].site.visitLimit
        /\ handlers[i].block.tabId = 0
        /\ handlers[j].outcome = "evaluated"
        /\ handlers[j].site.visitCount = handlers[j].site.visitLimit + 1
        /\ handlers[j].block.tabId # 0

\* C2 (the claim as stated): a qualifying event delivered while the
\* registry's matching record is over its limit, and handled without a
\* rollover and without a failed write, ends with its tab redirected.
C2_OverLimitAlwaysRedirects ==
    \A i \in 1..Len(handlers) :
        ( /\ handlers[i].pc = "done"
          /\ handlers[i].over
          /\ ~handlers[i].rolled
          /\ handlers[i].outcome # "failed" )
        => handlers[i].block.tabId # 0

\* C3: over a whole session, at most one activation of onNavigation per
\* tab id gets past the tabIds check and increments a visitCount.
C3_OneEvaluationPerTab ==
    \A t \in TabsInUse \ {0} :
        Cardinality({ i \in 1..Len(handlers) :
                        handlers[i].tab = t /\ handlers[i].site.id # 0 }) <= 1

\* C3 witness: two activations for one tab id were suspended on the registry
\* read together (the one delivered first is still suspended), and the one
\* delivered second has been evaluated.
C3_Witness ==
    \E i, j \in 1..Len(handlers) :
        /\ i < j
        /\ handlers[i].tab = handlers[j].tab
        /\ handlers[i].pc = "read1"
        /\ handlers[j].site.id # 0

\* C4: an evaluation at time now turns the record it read into visitCount 1
\* and lastReset now when now >= lastReset + window, and into visitCount + 1
\* with lastReset unchanged otherwise; and when the registry still holds the
\* record as read, the write stores exactly that.
C4_RolloverOrIncrement ==
    [][ \A i \in 1..Len(handlers) :
          /\ (handlers[i].pc = "read1" /\ handlers'[i].pc = "read2") =>
                LET old == handlers'[i].old
                    new == handlers'[i].site
                IN  /\ old = findMatchingSite(handlers[i].hostname, storage)
                    /\ IF now >= getResetTime(old)
                       THEN new = [old EXCEPT !.visitCount = 1, !.lastReset = now]
                       ELSE new = [old EXCEPT !.visitCount = old.visitCount + 1]
          /\ ( /\ handlers[i].pc = "write"
               /\ handlers'[i].outcome = "evaluated"
               /\ HasKey(storage, handlers[i].site.id)
               /\ Get(storage, handlers[i].site.id) = handlers[i].old ) =>
                LET old == Get(storage, handlers[i].site.id)
                    new == Get(storage', handlers[i].site.id)
                IN  IF handlers[i].rolled
                    THEN new.visitCount = 1 /\ new.lastReset >= getResetTime(old)
                    ELSE new = [old EXCEPT !.visitCount = old.visitCount + 1]
      ]_vars

\* C4 witness: an evaluation exactly at the window boundary (the record was
\* created at 0 with the 'minutes' window) has rolled over, and the registry
\* holds visitCount 1 and lastReset = that instant.
C4_Witness ==
    \E i \in 1..Len(handlers) :
        /\ handlers[i].outcome = "evaluated"
        /\ handlers[i].rolled
        /\ handlers[i].site.createdAt = 0
        /\ handlers[i].site.lastReset = MinutesMs
        /\ HasKey(storage, handlers[i].site.id)
        /\ Get(storage, handlers[i].site.id) = handlers[i].site
        /\ handlers[i].site.visitCount = 1

\* C5 (the claim as stated, for the writes of evaluations): when the write
\* of an evaluation lands, no record's visitCount goes down, unless that
\* evaluation rolled the window over and wrote visitCount 1 for that record.
C5_CountNeverDecreases ==
    [][ \A i \in 1..Len(handlers) :
          (handlers[i].pc = "write" /\ handlers'[i].outcome = "evaluated") =>
             \A k \in Keys(storage) \cap Keys(storage') :
                Get(storage', k).visitCount < Get(storage, k).visitCount =>
                   /\ handlers[i].rolled
                   /\ handlers[i].site.id = k
                   /\ Get(storage', k).visitCount = 1
      ]_vars

\* C6: in a session of navigations to the limited site from distinct new
\* tabs, each handled to its end before the next and none rolling the window
\* over, the i-th navigation writes visitCount i, is blocked if and only if
\* i > visitLimit, and the registry holds the count of the last one.
C6_SequentialCounts ==
    \A n \in 1..Len(handlers) :
        (\A i \in 1..n : handlers[i].outcome = "evaluated" /\ ~handlers[i].rolled)
        => /\ handlers[n].site.visitCount = n
           /\ (handlers[n].block.tabId # 0) <=> (n > handlers[n].site.visitLimit)
           /\ handlers[n].block.tabId # 0 =>
                 /\ handlers[n].block.visitCount = n
                 /\ handlers[n].block.visitLimit = handlers[n].site.visitLimit
           /\ n = Len(handlers) => Get(storage, 1).visitCount = n

\* C6 witness: limit 3, four navigations from four tabs: counts 1, 2, 3
\* unblocked, the fourth blocked with visitCount 4 and visitLimit 3.
C6_Witness ==
    /\ Len(handlers) = 4
    /\ \A i \in 1..4 :
          /\ handlers[i].outcome = "evaluated"
          /\ handlers[i].site.visitCount = i
          /\ handlers[i].tab = i
    /\ \A i \in 1..3 : handlers[i].block.tabId = 0
    /\ handlers[4].block.tabId # 0
    /\ handlers[4].block.visitCount = 4
    /\ handlers[4].block.visitLimit = 3
    /\ Get(storage, 1).visitCount = 4

\* C7: the mapping an evaluation hands to storage.sync.set carries the
\* record computed from the read of onNavigation (1 after a rollover, else
\* the visitCount read then plus one), whatever the registry holds by then.
C7_WriteIsFromFirstRead ==
    \A i \in 1..Len(handlers) :
        handlers[i].pc = "write" =>
            /\ Get(handlers[i].data, handlers[i].site.id) = handlers[i].site
            /\ handlers[i].site.visitCount =
                  IF handlers[i].rolled THEN 1 ELSE handlers[i].old.visitCount + 1

\* C7 witness: two tabs were both evaluated for one record without a
\* rollover, both are marked seen, both wrote the same visitCount and the
\* registry holds it: two visits raised the count by one.
C7_Witness ==
    \E i, j \in 1..Len(handlers) :
        /\ handlers[i].tab # handlers[j].tab
        /\ handlers[i].outcome = "evaluated"
        /\ handlers[j].outcome = "evaluated"
        /\ ~handlers[i].rolled /\ ~handlers[j].rolled
        /\ handlers[i].site.id = handlers[j].site.id
        /\ {handlers[i].tab, handlers[j].tab} \subseteq tabIds
        /\ handlers[i].site.visitCount = handlers[j].site.visitCount
        /\ HasKey(storage, handlers[i].site.id)
        /\ Get(storage, handlers[i].site.id).visitCount = handlers[i].site.visitCount

\* C8 (the claim as stated): every write of the engine stores its record
\* under an id the registry holds at that moment, and brings no id back.
C8_EngineCreatesNoId ==
    [][ \A i \in 1..Len(handlers) :
          (handlers[i].pc = "write" /\ handlers'[i].outcome = "evaluated") =>
             /\ HasKey(storage, handlers[i].site.id)
             /\ Keys(storage') \subseteq Keys(storage)
      ]_vars

\* C9: isHostnameMatch(h, p) is true if and only if h equals strip(p) or h
\* ends with "." followed by strip(p), strip removing one leading "*.".
C9_MatchIffEqualOrSubdomain ==
    mResult # "none" =>
        LET strip == IF Len(mPattern) >= 2 /\ mPattern[1] = "*" /\ mPattern[2] = "."
                     THEN SubSeq(mPattern, 3, Len(mPattern))
                     ELSE mPattern
            dotted == <<".">> \o strip
            ends == /\ Len(mHostname) >= Len(dotted)
                    /\ \A k \in 1..Len(dotted) :
                          mHostname[Len(mHostname) - Len(dotted) + k] = dotted[k]
        IN  (mResult = "match") <=> (mHostname = strip \/ ends)

\* C9 witness: the wildcard pattern "*.x" was matched against its subdomain
\* "a.x".
C9_Witness ==
    /\ mPattern = <<"*", ".", "x">>
    /\ mHostname = <<"a", ".", "x">>
    /\ mResult = "match"

\* C10: findMatchingSite returns the first record, in the mapping's order,
\* whose url matches the hostname, and none exactly when no url matches; and
\* the mapping the evaluation writes differs from the one it read only at
\* that record's id.
C10_FirstMatchOnly ==
    [][ \A i \in 1..Len(handlers) :
          /\ (handlers[i].pc = "read1" /\ handlers'[i].pc \in {"read2", "done"}) =>
                LET values == ObjectValues(storage)
                    matching == { k \in 1..Len(values) :
                                    isHostnameMatch(handlers[i].hostname, values[k].url) }
                IN  /\ (matching = {}) <=> (handlers'[i].outcome = "nomatch")
                    /\ handlers'[i].pc = "read2" =>
                          \E k \in matching :
                             /\ \A m \in matching : k <= m
                             /\ handlers'[i].old = values[k]
                             /\ handlers'[i].site.id = values[k].id
          /\ (handlers[i].pc = "read2" /\ handlers'[i].pc = "write") =>
                /\ Delete(handlers'[i].data, handlers[i].site.id)
                      = Delete(storage, handlers[i].site.id)
                /\ Get(handlers'[i].data, handlers[i].site.id).visitCount
                      = handlers[i].site.visitCount
      ]_vars

\* C10 witness: the hostname a.x.c matched two records, and after the
\* evaluation the first holds visitCount 1 and the second still 0.
C10_Witness ==
    \E i \in 1..Len(handlers) :
        /\ handlers[i].outcome = "evaluated"
        /\ Len(storage) = 2
        /\ \A k \in 1..2 : isHostnameMatch(handlers[i].hostname, storage[k].val.url)
        /\ storage[1].val.url # storage[2].val.url
        /\ storage[1].val.visitCount = 1
        /\ storage[2].val.visitCount = 0

\* C11 (the claim as stated): a handler whose registry call (write or read)
\* failed has ended in the catch of onNavigation, without a redirect.
C11_FailureIsCaught ==
    \A i \in 1..Len(handlers) :
        handlers[i].outcome = "failed" =>
            /\ handlers[i].pc = "done"
            /\ handlers[i].block.tabId = 0

\* C12 (the claim as stated): a remaining time of more than 24 hours is
\* expressed in days.
C12_DaysWhenOver24Hours ==
    (fText # "none" /\ fMs > DayMs) =>
        fText \in {Plural(d, "day") : d \in 0..(MaxHours + 1)}

\* C12 (amended): the text is "D day(s)", D the whole days, when the
\* remaining time is at least 25 hours; "H hour(s) and M minute(s)" when it
\* is at least one hour and less than 25 hours; "M minute(s)" otherwise; H
\* and M the whole hours and the whole minutes left over, and the singular
\* is used exactly for the value 1.
C12_FormatByWholeHours ==
    fText # "none" =>
        LET D == fMs \div DayMs
            H == fMs \div HourMs
            M == (fMs - H * HourMs) \div MinuteMs
            Word(n, one, many) == ToString(n) \o " " \o (IF n = 1 THEN one ELSE many)
        IN  IF fMs >= 25 * HourMs
            THEN fText = Word(D, "day", "days")
            ELSE IF fMs >= HourMs
            THEN fText = Word(H, "hour", "hours") \o " and " \o Word(M, "minute", "minutes")
            ELSE fText = Word(M, "minute", "minutes")

\* C12 witness: 24 hours and 30 minutes, more than a day, is formatted in
\* hours and minutes.
C12_Witness ==
    /\ fMs = 24 * HourMs + 30 * MinuteMs
    /\ fText = "24 hours and 30 minutes"

\* C13: an event with no tab id, or with no URL, a chrome:// or
\* chrome-extension:// URL or a URL that does not parse (none of which has a
\* hostname), ends at once as skipped; and the step in which a handler ends
\* as skipped, or as matching no record, changes no registry record and not
\* the seen set, and issues no redirect.
C13_SkippedHasNoEffect ==
    [][ \A i \in 1..Len(handlers') :
          /\ (i > Len(handlers) /\ handlers'[i].outcome # "skipped")
              => /\ handlers'[i].tab # 0
                 /\ \E url \in Urls :
                       /\ url.scheme \notin {"none", "chrome", "chrome-extension", "invalid"}
                       /\ handlers'[i].hostname = extractHostname(url)
                       /\ handlers'[i].hostname # NoHostname
          /\ ( /\ handlers'[i].outcome \in {"skipped", "nomatch"}
                /\ (i > Len(handlers) \/ handlers[i].outcome = "pending") )
              => /\ storage' = storage
                 /\ tabIds' = tabIds
                 /\ handlers'[i].pc = "done"
                 /\ handlers'[i].block.tabId = 0
                 /\ handlers'[i].site.id = 0
      ]_vars

\* C13 witness: a navigation of a tab matched no record and left the tab
\* unseen, and a later navigation of the same tab to a limited site was
\* counted.
C13_Witness ==
    \E i, j \in 1..Len(handlers) :
        /\ i < j
        /\ handlers[i].tab = handlers[j].tab
        /\ handlers[i].outcome = "nomatch"
        /\ handlers[j].outcome = "evaluated"
        /\ handlers[j].site.visitCount = 1
        /\ handlers[j].tab \in tabIds

\* C14: the step of a submission whose URL is empty after trimming, or
\* whose limit is not a number or is less than 1, shows the error status,
\* starts no operation and leaves the registry unchanged; and every record
\* of the registry, and every record on its way to it, has visitLimit >= 1.
C14_RejectedCreatesNothing ==
    [][ /\ (status' = "error" /\ status # "error")
              => /\ storage' = storage
                 /\ popupOps' = popupOps
                 /\ nextId' = nextId
        /\ \A o \in popupOps' \ popupOps :
              (o.op = "add" /\ o.pc = "read")
              => /\ o.siteLimit.visitLimit >= 1
                 /\ \E input \in FormUrls :
                       /\ Trim(input) # <<>>
                       /\ o.siteLimit.url = normalizeUrl(Trim(input))
        /\ \A k \in Keys(storage') : Get(storage', k).visitLimit >= 1
        /\ \A o \in popupOps' :
              o.pc = "write" => \A k \in Keys(o.data) : Get(o.data, k).visitLimit >= 1
        /\ \A i \in 1..Len(handlers') :
              handlers'[i].pc = "write" =>
                 \A k \in Keys(handlers'[i].data) : Get(handlers'[i].data, k).visitLimit >= 1
      ]_vars

\* C14 witness: a submission was rejected while the registry holds a record
\* with the smallest limit the form accepts, visited past that limit.
C14_Witness ==
    /\ status = "error"
    /\ popupOps = {}
    /\ \E k \in Keys(storage) :
          /\ Get(storage, k).visitLimit = 1
          /\ Get(storage, k).visitCount = 2

\* C15 (the claim as stated): the pattern stored for an accepted input is
\* lowercase, starts with no http:// or https:// in any letter case and
\* with no "www.", ends with no slash, and normalizeUrl maps it to itself.
C15_StoredPatternIsNormalized ==
    nResult.applied =>
        /\ nResult.url = ToLowerCase(nResult.url)
        /\ ~StartsWith(ToLowerCase(nResult.url), <<"h", "t", "t", "p", ":", "/", "/">>)
        /\ ~StartsWith(ToLowerCase(nResult.url), <<"h", "t", "t", "p", "s", ":", "/", "/">>)
        /\ ~StartsWith(nResult.url, <<"w", "w", "w", ".">>)
        /\ ~EndsWith(nResult.url, <<"/">>)
        /\ nResult.again = nResult.url

\* C16: for a record labelled hour, day, week or minutes, the engine and the
\* popup compute the same reset instant, lastReset plus 3 600 000,
\* 86 400 000, 604 800 000 or 1 800 000 milliseconds.
C16_SameResetInstant ==
    rResult.applied =>
        LET duration == CASE rSite.timeInterval = "hour" -> 3600000
                          [] rSite.timeInterval = "day" -> 86400000
                          [] rSite.timeInterval = "week" -> 604800000
                          [] rSite.timeInterval = "minutes" -> 1800000
        IN  /\ rResult.engine = rSite.lastReset + duration
            /\ rResult.popup = rResult.engine

\* C16 witness: for a 'minutes' record last reset at half an hour, both
\* compute the instant one hour.
C16_Witness ==
    /\ rSite = [timeInterval |-> "minutes", lastReset |-> 1800000]
    /\ rResult = [applied |-> TRUE, engine |-> 3600000, popup |-> 3600000]

\* C17: the block instruction an evaluation issues redirects the tab of the
\* event evaluated and carries the url, visitLimit and timeInterval of the
\* record findMatchingSite returned, and the visitCount that the write of
\* this evaluation has just stored in the registry.
C17_BlockCarriesEvaluation ==
    [][ \A i \in 1..Len(handlers) :
          (handlers[i].pc = "write" /\ handlers'[i].block.tabId # 0) =>
             /\ handlers'[i].block.tabId = handlers[i].tab
             /\ handlers'[i].block.siteUrl = handlers[i].old.url
             /\ handlers'[i].block.visitLimit = handlers[i].old.visitLimit
             /\ handlers'[i].block.timeInterval = handlers[i].old.timeInterval
             /\ HasKey(storage', handlers[i].old.id)
             /\ handlers'[i].block.visitCount = Get(storage', handlers[i].old.id).visitCount
             /\ \A j \in 1..Len(handlers) :
                   j # i => handlers'[j].block = handlers[j].block
      ]_vars

\* C17 witness: tab 2 was evaluated after tab 1 on a record of limit 1, and
\* was redirected with visitCount 2, the count the registry now holds.
C17_Witness ==
    \E i \in 1..Len(handlers) :
        /\ handlers[i].tab = 2
        /\ handlers[i].outcome = "evaluated"
        /\ handlers[i].block.tabId = 2
        /\ handlers[i].block.visitCount = 2
        /\ handlers[i].block.visitLimit = 1
        /\ handlers[i].block.siteUrl = handlers[i].site.url
        /\ HasKey(storage, handlers[i].site.id)
        /\ Get(storage, handlers[i].site.id).visitCount = 2

\* C18: the seen set holds only tab ids of events that matched a record (so
\* it is empty before any event); no step removes a tab id from it; and a
\* tab id enters it only in the step in which a handler of that tab resumes
\* from the read of onNavigation with a record matching its hostname.
C18_SeenSetOnlyGrows ==
    [][ /\ tabIds \subseteq {handlers[i].tab : i \in {j \in 1..Len(handlers) :
                                                        handlers[j].site.id # 0}}
        /\ tabIds \subseteq tabIds'
        /\ \A t \in tabIds' \ tabIds :
              \E i \in 1..Len(handlers) :
                 /\ handlers[i].tab = t
                 /\ handlers[i].pc = "read1"
                 /\ handlers'[i].pc = "read2"
                 /\ \E k \in 1..Len(storage) :
                       isHostnameMatch(handlers[i].hostname, storage[k].val.url)
      ]_vars

\* C18 witness: a tab was evaluated and is seen; its record has since been
\* removed from the registry, a later navigation of the tab matched
\* nothing, and the tab is still seen.
C18_Witness ==
    \E i, j \in 1..Len(handlers) :
        /\ i < j
        /\ handlers[i].tab = handlers[j].tab
        /\ handlers[i].outcome = "evaluated"
        /\ ~HasKey(storage, handlers[i].site.id)
        /\ handlers[j].outcome = "nomatch"
        /\ handlers[i].tab \in tabIds

\* C19 (the claim as stated): when the host completes every registry call,
\* with a result or with a failure, every handler that has started
\* finishes: a handler that has not finished is one the host's next
\* completion resumes.
C19_HandlersFinish ==
    \A i \in 1..Len(handlers) :
        handlers[i].pc # "done" => ENABLED HandlerRun(i)

\* C20: every writer hands to storage.sync.set the whole mapping it read,
\* changed at its own record only, and when the write lands that mapping
\* replaces the registry, whatever the registry holds by then.
C20_WholeMappingWrittenBack ==
    [][ /\ \A o \in popupOps' \ popupOps :
              o.pc = "write" =>
                 /\ Keys(o.data) = IF o.op = "add" THEN Keys(storage) \cup {o.siteId}
                                   ELSE Keys(storage) \ {o.siteId}
                 /\ \A k \in Keys(o.data) \ {o.siteId} : Get(o.data, k) = Get(storage, k)
        /\ \A o \in popupOps \ popupOps' :
              o.pc = "write" => storage' = o.data
        /\ \A i \in 1..Len(handlers) :
              /\ (handlers[i].pc = "read2" /\ handlers'[i].pc = "write") =>
                    /\ Keys(handlers'[i].data) = Keys(storage) \cup {handlers[i].site.id}
                    /\ \A k \in Keys(storage) \ {handlers[i].site.id} :
                          Get(handlers'[i].data, k) = Get(storage, k)
              /\ (handlers[i].pc = "write" /\ handlers'[i].outcome = "evaluated") =>
                    storage' = handlers[i].data
      ]_vars

\* C20 witness: the only navigation handled was evaluated for a record and
\* wrote visitCount 1; the popup, which had read the registry before that
\* write, has since added a second record, and the registry now holds both
\* records with the first one's visitCount back at 0: the increment is lost.
C20_Witness ==
    /\ Len(handlers) = 1
    /\ handlers[1].outcome = "evaluated"
    /\ handlers[1].site.visitCount = 1
    /\ popupOps = {}
    /\ Len(storage) = 2
    /\ HasKey(storage, handlers[1].site.id)
    /\ Get(storage, handlers[1].site.id).visitCount = 0
    /\ Get(storage, handlers[1].site.id).lastReset = handlers[1].site.lastReset

\* C21: a tab id is redirected at most once; a redirect is issued only by
\* the evaluation of that tab id; the events of a redirected tab loading
\* the blocked page are skipped at once; and no event of a tab that follows
\* its redirect changes the registry or redirects the tab again.
C21_RedirectedAtMostOnce ==
    [][ /\ \A t \in TabsInUse \ {0} :
              Cardinality({i \in 1..Len(handlers) : handlers[i].block.tabId = t}) <= 1
        /\ \A i \in 1..Len(handlers) :
              handlers[i].block.tabId # 0 =>
                 /\ handlers[i].block.tabId = handlers[i].tab
                 /\ handlers[i].outcome = "evaluated"
                 /\ \A kind \in EventKinds :
                       /\ onNavigation(handlers[i].tab, BlockedPageUrl, kind).pc = "done"
                       /\ onNavigation(handlers[i].tab, BlockedPageUrl, kind).outcome = "skipped"
                 /\ \A j \in (i + 1)..Len(handlers') :
                       handlers'[j].tab = handlers[i].tab =>
                          /\ handlers'[j].site.id = 0
                          /\ handlers'[j].block.tabId = 0
                          /\ (j > Len(handlers) \/ handlers'[j] # handlers[j])
                                => storage' = storage
      ]_vars

\* C21 witness: tab 2 was redirected by its evaluation, and two later
\* events of tab 2 ended without an evaluation, the registry still holding
\* the count the redirect carried.
C21_Witness ==
    /\ Len(handlers) = 4
    /\ handlers[2].tab = 2
    /\ handlers[2].block.tabId = 2
    /\ handlers[3].tab = 2 /\ handlers[3].outcome = "skipped"
    /\ handlers[4].tab = 2 /\ handlers[4].outcome \in {"skipped", "watched"}
    /\ \A i \in {1, 3, 4} : handlers[i].block.tabId = 0
    /\ Get(storage, 1).visitCount = handlers[2].block.visitCount

\* C22 (the claim as stated, for the writes of evaluations): when the write
\* of an evaluation lands, no record's stored lastReset moves backwards.
C22_LastResetNeverGoesBack ==
    [][ \A i \in 1..Len(handlers) :
          (handlers[i].pc = "write" /\ handlers'[i].outcome = "evaluated") =>
             \A k \in Keys(storage) \cap Keys(storage') :
                Get(storage', k).lastReset >= Get(storage, k).lastReset
      ]_vars

\* C23: in the registry, and in every mapping on its way to the registry,
\* each key occurs once and the record stored under key k has id k.
C23_StoredUnderOwnId ==
    LET OwnIds(siteLimits) ==
           \A i, j \in 1..Len(siteLimits) :
              /\ siteLimits[i].val.id = siteLimits[i].key
              /\ siteLimits[i].key = siteLimits[j].key => i = j
    IN  /\ OwnIds(storage)
        /\ \A o \in popupOps : o.pc = "write" => OwnIds(o.data)
        /\ \A i \in 1..Len(handlers) : handlers[i].pc = "write" => OwnIds(handlers[i].data)

\* C23 witness: two records were added, the first was deleted, and an
\* evaluation then wrote the second: the registry holds that one record,
\* with id 2 under key 2.
C23_Witness ==
    /\ nextId = 3
    /\ Len(storage) = 1
    /\ storage[1].key = 2
    /\ storage[1].val.id = 2
    /\ storage[1].val.visitCount = 1
    /\ \E i \in 1..Len(handlers) :
          handlers[i].outcome = "evaluated" /\ handlers[i].site.id = 2

\* C24 (the claim as stated): the remaining time of every block instruction
\* is more than zero and at most the window duration of its record.
C24_RemainingWithinWindow ==
    \A i \in 1..Len(handlers) :
        handlers[i].block.tabId # 0 =>
            /\ handlers[i].block.remaining > 0
            /\ handlers[i].block.remaining
                  <= getResetTime(handlers[i].site) - handlers[i].site.lastReset
====
